---- MODULE Spec2Model ----
(***************************************************************************)
(* Model of the civic-issues backend, src/api/src/index.ts: the in-memory  *)
(* issue store, the media heuristic, POST /verify, POST /issues,           *)
(* PATCH /issues/:id and the escalation interval.                          *)
(*                                                                         *)
(* Representation of JavaScript values:                                    *)
(*   - a key or token (a string the code slices or derives) is a sequence  *)
(*     of one-character strings, so that startsWith, slice and toString(36)*)
(*     are computed and not assumed;                                       *)
(*   - a free-text field is a TLA+ string; the strings Undefined and Null  *)
(*     stand for the JavaScript values undefined and null in such a field; *)
(*   - a media value is a record with a tag (undefined, null, object); its *)
(*     data is a tag (undefined, string) and, for a string, the pieces     *)
(*     between its commas, each piece given by its length (len) and the    *)
(*     number of trailing '=' padding characters it ends with (pad);       *)
(*   - time is Date.now() in milliseconds.                                 *)
(***************************************************************************)
EXTENDS Integers, Sequences, FiniteSets, TLC

VARIABLES
    now,              \* the reading of Date.now()
    issues,           \* const issues: Record<string, Issue>, own properties
    objectPrototype,  \* properties the handlers have set on Object.prototype
    users,            \* const users: Record<string, User>, own properties
    keyOrder,         \* the own keys of each store, in the order of insertion
    setBacks,         \* how often the wall clock has been set back
    resp              \* outcome of the last handler or callback that ran

vars == <<now, issues, objectPrototype, users, keyOrder, setBacks, resp>>

----------------------------------------------------------------------------
(* Bounds of the model *)

MaxIssues == 2
MaxWeeks == 1
MaxSkew == 1
MaxSetBacks == 1
PatchMaxIssues == 2
GateMaxIssues == 2
ListMaxIssues == 2
ListMaxSetBacks == 1
AuthMaxUsers == 2
AuthMaxIssues == 1
BodyMaxIssues == 2
ReadMaxUsers == 1
ReadMaxIssues == 2

(* Program constants *)

MinPhotoBytes == 10000
OneWeekMs == 7 * 24 * 60 * 60 * 1000

----------------------------------------------------------------------------
(* JavaScript values *)

Undefined == "undefined"
Null == "null"

\* !v for a string-valued field: undefined, null and '' are falsy
Falsy(v) == v \in {Undefined, Null, ""}

Truthy(v) == ~Falsy(v)

\* v ?? d
Coalesce(v, d) == IF v \in {Undefined, Null} THEN d ELSE v

DevPrefix == <<"d", "e", "v", "-">>

\* token.startsWith('dev-')
StartsWithDev(token) ==
    Len(token) >= Len(DevPrefix) /\ SubSeq(token, 1, Len(DevPrefix)) = DevPrefix

\* a slip: the prefix cut one character short, token.slice(3)
Slice3(token) == SubSeq(token, Len(DevPrefix), Len(token))

\* token.slice(4)
Slice4(token) == SubSeq(token, Len(DevPrefix) + 1, Len(token))

Digit36 ==
    << "0", "1", "2", "3", "4", "5", "6", "7", "8", "9", "a", "b",
       "c", "d", "e", "f", "g", "h", "i", "j", "k", "l", "m", "n",
       "o", "p", "q", "r", "s", "t", "u", "v", "w", "x", "y", "z" >>

\* n.toString(36) for an integer n >= 0
RECURSIVE ToString36(_)
ToString36(n) ==
    IF n < Len(Digit36)
    THEN << Digit36[n + 1] >>
    ELSE ToString36(n \div Len(Digit36)) \o << Digit36[(n % Len(Digit36)) + 1] >>

\* Math.ceil(a / b) for a >= 0, b > 0
CeilDiv(a, b) == (a + b - 1) \div b

----------------------------------------------------------------------------
(* Media *)

NoMedia == [tag |-> "undefined", type |-> Undefined, data |-> [tag |-> "undefined", parts |-> <<>>]]
NullMedia == [tag |-> "null", type |-> Undefined, data |-> [tag |-> "undefined", parts |-> <<>>]]

\* data.split(',')[1] ?? '' : the length of the second piece, 0 when there is none
Base64Length(data) == IF Len(data.parts) >= 2 THEN data.parts[2].len ELSE 0

\* media.data.split throws a TypeError when data is not a string
SplitThrows(media) == media.data.tag # "string"

\* a slip: the threshold compared with the base64 length, not the byte size
VerifyMediaHeuristicOnLength(media) ==
    IF media.tag \in {"undefined", "null"}
    THEN [isGenuine |-> FALSE, reason |-> "No media"]
    ELSE IF SplitThrows(media)
    THEN [isGenuine |-> FALSE, reason |-> "Invalid media data"]
    ELSE IF media.type = "photo" /\ Base64Length(media.data) < MinPhotoBytes
         THEN [isGenuine |-> FALSE, reason |-> "Image too small"]
         ELSE [isGenuine |-> TRUE, reason |-> Undefined]

VerifyMediaHeuristic(media) ==
    IF media.tag \in {"undefined", "null"}
    THEN [isGenuine |-> FALSE, reason |-> "No media"]
    ELSE IF SplitThrows(media)
    THEN [isGenuine |-> FALSE, reason |-> "Invalid media data"]
    ELSE LET sizeBytes == CeilDiv(Base64Length(media.data) * 3, 4)
         IN  IF media.type = "photo" /\ sizeBytes < MinPhotoBytes
             THEN [isGenuine |-> FALSE, reason |-> "Image too small"]
             ELSE [isGenuine |-> TRUE, reason |-> Undefined]

\* media ?? null
MediaOrNull(media) == IF media.tag = "undefined" THEN NullMedia ELSE media

\* a slip: an issue is Spam only when the gate is given no media at all
InitialStatusNoMediaOnly(media) ==
    IF MediaOrNull(media).tag = "null" THEN "Spam" ELSE "Reported"

InitialStatus(media) ==
    IF VerifyMediaHeuristic(MediaOrNull(media)).isGenuine THEN "Reported" ELSE "Spam"

----------------------------------------------------------------------------
(* Reading a field of a parsed JSON body: an absent own property is looked *)
(* up on Object.prototype.                                                 *)

CleanPrototype ==
    [status |-> Undefined, department |-> Undefined, priority |-> Undefined,
     updatedAt |-> 0]

BodyField(v, f) == IF v = Undefined THEN objectPrototype[f] ELSE v

\* the key that names Object.prototype on a plain object
ProtoKey == << "_", "_", "p", "r", "o", "t", "o", "_", "_" >>

\* the properties of Object.prototype that every plain object inherits: each
\* is a function
ConstructorKey == << "c", "o", "n", "s", "t", "r", "u", "c", "t", "o", "r" >>
ToStringKey == << "t", "o", "S", "t", "r", "i", "n", "g" >>
InheritedKeys ==
    { ConstructorKey,
      ToStringKey,
      << "t", "o", "L", "o", "c", "a", "l", "e", "S", "t", "r", "i", "n", "g" >>,
      << "v", "a", "l", "u", "e", "O", "f" >>,
      << "h", "a", "s", "O", "w", "n", "P", "r", "o", "p", "e", "r", "t", "y" >>,
      << "i", "s", "P", "r", "o", "t", "o", "t", "y", "p", "e", "O", "f" >>,
      << "p", "r", "o", "p", "e", "r", "t", "y", "I", "s", "E", "n", "u", "m", "e", "r", "a", "b", "l", "e" >>,
      << "_", "_", "d", "e", "f", "i", "n", "e", "G", "e", "t", "t", "e", "r", "_", "_" >>,
      << "_", "_", "d", "e", "f", "i", "n", "e", "S", "e", "t", "t", "e", "r", "_", "_" >>,
      << "_", "_", "l", "o", "o", "k", "u", "p", "G", "e", "t", "t", "e", "r", "_", "_" >>,
      << "_", "_", "l", "o", "o", "k", "u", "p", "S", "e", "t", "t", "e", "r", "_", "_" >> }

\* the properties that PATCH /issues/__proto__ writes on Object.prototype,
\* by the key under which every plain object then inherits them
StatusKey == << "s", "t", "a", "t", "u", "s" >>
WrittenKeys ==
    [status |-> StatusKey,
     department |-> << "d", "e", "p", "a", "r", "t", "m", "e", "n", "t" >>,
     priority |-> << "p", "r", "i", "o", "r", "i", "t", "y" >>,
     updatedAt |-> << "u", "p", "d", "a", "t", "e", "d", "A", "t" >>]

\* !!Object.prototype[f] for a property f that the handlers write: updatedAt
\* is a clock reading once written, the others are strings
TruthyOnPrototype(f) ==
    IF f = "updatedAt" THEN objectPrototype[f] # 0 ELSE Truthy(objectPrototype[f])

\* issues[id]: an own property, else what the prototype chain gives:
\* Object.prototype itself, one of its functions, or a value written on it
\* (a string or a number: "primitive" when it is truthy)
Lookup(id) ==
    IF id \in DOMAIN issues THEN "own"
    ELSE IF id = ProtoKey THEN "prototype"
    ELSE IF id \in InheritedKeys THEN "inherited"
    ELSE IF \E f \in DOMAIN WrittenKeys : WrittenKeys[f] = id /\ TruthyOnPrototype(f)
    THEN "primitive"
    ELSE "undefined"

\* store[id] = value: a key the store does not have yet is added after the
\* keys it has, a key it has keeps its place
Inserted(order, id) ==
    IF \E i \in 1..Len(order) : order[i] = id THEN order ELSE Append(order, id)

----------------------------------------------------------------------------
(* Responses *)

NoId == << >>

\* a query parameter or body text that was not sent
Absent == [tag |-> "undefined", chars |-> << >>]

\* the user of an answer that carries none
NoUser ==
    [id |-> NoId, role |-> Undefined, email |-> Undefined,
     aadhaar |-> Undefined, language |-> Undefined]

\* token: the token in the body of the answer; list: the issues in the body
\* of the answer; user: the user in the body of the answer
Response(op, code, id) ==
    [op |-> op, code |-> code, id |-> id, at |-> 0, run |-> 0,
     isGenuine |-> FALSE, reason |-> Undefined,
     token |-> NoId, list |-> << >>, user |-> NoUser]

----------------------------------------------------------------------------
Init ==
    /\ now = 1
    /\ issues = << >>
    /\ objectPrototype = CleanPrototype
    /\ users = << >>
    /\ keyOrder = [issues |-> << >>, users |-> << >>]
    /\ setBacks = 0
    /\ resp = Response("start", 0, NoId)

----------------------------------------------------------------------------
(* GET /health *)

Health ==
    /\ resp' = Response("health", 200, NoId)
    /\ UNCHANGED <<now, setBacks, issues, objectPrototype, users, keyOrder>>

----------------------------------------------------------------------------
(* POST /verify *)

\* a slip: the standalone endpoint only tests that a media is present
PostVerifyAnyMedia(media) ==
    /\ resp' = [Response("verify", 200, NoId) EXCEPT
                   !.isGenuine = media.tag = "object",
                   !.reason = IF media.tag = "object" THEN Undefined ELSE "No media"]
    /\ UNCHANGED <<now, setBacks, issues, objectPrototype, users, keyOrder>>

PostVerify(media) ==
    /\ resp' = [Response("verify", 200, NoId) EXCEPT
                   !.isGenuine = VerifyMediaHeuristic(media).isGenuine,
                   !.reason = VerifyMediaHeuristic(media).reason]
    /\ UNCHANGED <<now, setBacks, issues, objectPrototype, users, keyOrder>>

----------------------------------------------------------------------------
(* POST /issues *)

NewIssue(req, priority, department) ==
    [id |-> ToString36(now),
     userId |-> Slice4(req.token),
     category |-> Coalesce(req.category, "Other"),
     description |-> req.description,
     priority |-> priority,
     emergency |-> (req.emergency = "true"),
     status |-> InitialStatus(req.media),
     location |-> Coalesce(req.location, Null),
     media |-> MediaOrNull(req.media),
     voice |-> MediaOrNull(req.voice),
     department |-> department,
     createdAt |-> now,
     updatedAt |-> now]

PostIssues(req, maxIssues) ==
    LET priority == BodyField(req.priority, "priority")
        department == BodyField(req.department, "department")
        id == ToString36(now)
    IN  IF req.token = NoId \/ ~StartsWithDev(req.token)
        THEN /\ resp' = Response("create", 401, NoId)
             /\ UNCHANGED <<now, setBacks, issues, objectPrototype, users, keyOrder>>
        ELSE IF Falsy(req.description) \/ Falsy(priority)
        THEN /\ resp' = Response("create", 400, NoId)
             /\ UNCHANGED <<now, setBacks, issues, objectPrototype, users, keyOrder>>
        ELSE /\ Cardinality(DOMAIN issues \cup {id}) <= maxIssues
             /\ issues' = (id :> NewIssue(req, priority, department)) @@ issues
             /\ keyOrder' = [keyOrder EXCEPT !.issues = Inserted(@, id)]
             /\ resp' = Response("create", 200, id)
             /\ UNCHANGED <<now, setBacks, objectPrototype, users>>

----------------------------------------------------------------------------
(* PATCH /issues/:id *)

\* the three conditional assignments and the timestamp, on the record found
ApplyPatch(existing, status, department, priority) ==
    [existing EXCEPT
        !.status = IF Truthy(status) THEN status ELSE @,
        !.department = IF department # Undefined THEN department ELSE @,
        !.priority = IF Truthy(priority) THEN priority ELSE @,
        !.updatedAt = now]

\* On a function that the store inherits the assignments set properties of
\* the function, which no handler reads and JSON.stringify leaves out: the
\* answer is 200 with an empty body.  On a string or a number that the store
\* inherits the assignment to updatedAt throws a TypeError (a module is
\* strict code) and Express answers 500; nothing has been written.
PatchIssue(req) ==
    LET status == BodyField(req.status, "status")
        department == BodyField(req.department, "department")
        priority == BodyField(req.priority, "priority")
        found == Lookup(req.id)
    IN  CASE found = "undefined" ->
               /\ resp' = Response("patch", 404, req.id)
               /\ UNCHANGED <<now, setBacks, issues, objectPrototype, users, keyOrder>>
          [] found = "own" ->
               /\ issues' = [issues EXCEPT
                                ![req.id] = ApplyPatch(@, status, department, priority)]
               /\ resp' = Response("patch", 200, req.id)
               /\ UNCHANGED <<now, setBacks, objectPrototype, users, keyOrder>>
          [] found = "prototype" ->
               /\ objectPrototype' =
                      ApplyPatch(objectPrototype, status, department, priority)
               /\ resp' = Response("patch", 200, req.id)
               /\ UNCHANGED <<now, setBacks, issues, users, keyOrder>>
          [] found = "inherited" ->
               /\ resp' = Response("patch", 200, req.id)
               /\ UNCHANGED <<now, setBacks, issues, objectPrototype, users, keyOrder>>
          [] found = "primitive" ->
               /\ resp' = Response("patch", 500, req.id)
               /\ UNCHANGED <<now, setBacks, issues, objectPrototype, users, keyOrder>>

----------------------------------------------------------------------------
(* The escalation interval *)

Stale(issue, t) == t - issue.createdAt > OneWeekMs

\* a slip: Spam treated as a terminal state the scan leaves alone
EscalateIssueKeepsSpam(issue, t) ==
    IF issue.status \notin {"Resolved", "Spam"} /\ Stale(issue, t)
    THEN [issue EXCEPT
             !.status = "Assigned",
             !.department = IF Truthy(@) THEN @ ELSE "Commissioner",
             !.updatedAt = t]
    ELSE issue

\* a slip: >= for >, an issue exactly one week old is escalated
EscalateIssueAtOneWeek(issue, t) ==
    IF issue.status # "Resolved" /\ t - issue.createdAt >= OneWeekMs
    THEN [issue EXCEPT
             !.status = "Assigned",
             !.department = IF Truthy(@) THEN @ ELSE "Commissioner",
             !.updatedAt = t]
    ELSE issue

\* a slip: the test on Resolved left out
EscalateIssueResolvedToo(issue, t) ==
    IF Stale(issue, t)
    THEN [issue EXCEPT
             !.status = "Assigned",
             !.department = IF Truthy(@) THEN @ ELSE "Commissioner",
             !.updatedAt = t]
    ELSE issue

\* a slip: the branches of the default swapped, a department already there
\* is cleared
EscalateIssueClearsDepartment(issue, t) ==
    IF issue.status # "Resolved" /\ Stale(issue, t)
    THEN [issue EXCEPT
             !.status = "Assigned",
             !.department = IF Truthy(@) THEN Undefined ELSE "Commissioner",
             !.updatedAt = t]
    ELSE issue

\* a slip: the department assigned without looking at the one already there
EscalateIssueAlwaysCommissioner(issue, t) ==
    IF issue.status # "Resolved" /\ Stale(issue, t)
    THEN [issue EXCEPT
             !.status = "Assigned",
             !.department = "Commissioner",
             !.updatedAt = t]
    ELSE issue

\* a slip: only an issue that is still Reported is escalated
EscalateIssueReportedOnly(issue, t) ==
    IF issue.status = "Reported" /\ Stale(issue, t)
    THEN [issue EXCEPT
             !.status = "Assigned",
             !.department = IF Truthy(@) THEN @ ELSE "Commissioner",
             !.updatedAt = t]
    ELSE issue

EscalateIssue(issue, t) ==
    IF issue.status # "Resolved" /\ Stale(issue, t)
    THEN [issue EXCEPT
             !.status = "Assigned",
             !.department = IF Truthy(@) THEN @ ELSE "Commissioner",
             !.updatedAt = t]
    ELSE issue

Escalate(store, t) == [id \in DOMAIN store |-> EscalateIssue(store[id], t)]

EscalationTick ==
    /\ issues' = Escalate(issues, now)
    /\ resp' = [Response("tick", 0, NoId) EXCEPT
                   !.at = now,
                   !.run = IF resp.op = "tick" THEN 2 ELSE 1]
    /\ UNCHANGED <<now, setBacks, objectPrototype, users, keyOrder>>

----------------------------------------------------------------------------
(* Object.values of a store: the own keys that are array indices come      *)
(* first, in ascending numeric order, then the other keys in the order in  *)
(* which they were inserted.                                               *)

DecimalDigits == { Digit36[i] : i \in 1..10 }

DigitValue(c) == CHOOSE v \in 0..(Len(Digit36) - 1) : Digit36[v + 1] = c

\* the number that key is the toString(36) of
RECURSIVE Value36(_)
Value36(key) ==
    IF key = << >> THEN 0
    ELSE Value36(SubSeq(key, 1, Len(key) - 1)) * Len(Digit36)
             + DigitValue(key[Len(key)])

\* the number a string of decimal digits reads as
RECURSIVE DecimalValue(_)
DecimalValue(chars) ==
    IF chars = << >> THEN 0
    ELSE DecimalValue(SubSeq(chars, 1, Len(chars) - 1)) * 10
             + DigitValue(chars[Len(chars)])

\* the digits of a string of decimal digits, as numbers
DigitsOfChars(chars) == [i \in 1..Len(chars) |-> DigitValue(chars[i])]

\* two sequences of digits compared from the left, the shorter one continued
\* with zeros: -1, 0 or 1
CompareDigits(a, b) ==
    LET n == IF Len(a) > Len(b) THEN Len(a) ELSE Len(b)
        at(s, i) == IF i <= Len(s) THEN s[i] ELSE 0
        differ == { i \in 1..n : at(a, i) # at(b, i) }
        first == CHOOSE i \in differ : \A j \in differ : i <= j
    IN  IF differ = {} THEN 0
        ELSE IF at(a, first) < at(b, first) THEN -1 ELSE 1

\* 2^32 - 2, the largest array index
MaxArrayIndex == << 4, 2, 9, 4, 9, 6, 7, 2, 9, 4 >>

\* a canonical array index: decimal digits, no leading zero, at most 2^32 - 2
IsArrayIndex(key) ==
    /\ Len(key) \in 1..Len(MaxArrayIndex)
    /\ \A i \in 1..Len(key) : key[i] \in DecimalDigits
    /\ Len(key) > 1 => key[1] # "0"
    /\ Len(key) = Len(MaxArrayIndex) =>
           CompareDigits(DigitsOfChars(key), MaxArrayIndex) <= 0

\* a comes before b in the enumeration of the own keys of an object whose
\* keys were inserted in the order of order
KeyBefore(a, b, order) ==
    IF IsArrayIndex(a) /\ IsArrayIndex(b)
    THEN \/ Len(a) < Len(b)
         \/ Len(a) = Len(b) /\ CompareDigits(DigitsOfChars(a), DigitsOfChars(b)) < 0
    ELSE IF IsArrayIndex(a) THEN TRUE
    ELSE IF IsArrayIndex(b) THEN FALSE
    ELSE (CHOOSE i \in 1..Len(order) : order[i] = a)
             < (CHOOSE i \in 1..Len(order) : order[i] = b)

RECURSIVE OwnKeys(_, _)
OwnKeys(keys, order) ==
    IF keys = {} THEN << >>
    ELSE LET first == CHOOSE k \in keys : \A o \in keys \ {k} : KeyBefore(k, o, order)
         IN  << first >> \o OwnKeys(keys \ {first}, order)

ObjectValues(store, order) ==
    [i \in 1..Cardinality(DOMAIN store) |-> store[OwnKeys(DOMAIN store, order)[i]]]

----------------------------------------------------------------------------
(* Number(text) for a string.  A character is a one-character string; a    *)
(* character that a string of this module cannot hold is written as its    *)
(* code point, "U+000B".  A number is NaN, an infinity, or                 *)
(*     sign * 0.d1 d2 ... dn * base^point                                  *)
(* with digits d1 .. dn, d1 and dn other than 0; zero has no digits.  The  *)
(* base is 10, but for the value of a binary, octal or hexadecimal literal *)
(* from 2^31, which is written in base 2.                                  *)

Text(chars) == [tag |-> "string", chars |-> chars]

NaN == [tag |-> "nan", sign |-> 1, base |-> 10, digits |-> << >>, point |-> 0]

Infinite(sign) ==
    [tag |-> "infinity", sign |-> sign, base |-> 10, digits |-> << >>, point |-> 0]

Zero(sign) ==
    [tag |-> "number", sign |-> sign, base |-> 10, digits |-> << >>, point |-> 0]

\* sign * 0.ds * 10^point for any sequence of decimal digits ds, in the form
\* above
Scientific(sign, ds, point) ==
    LET nonZero == { i \in 1..Len(ds) : ds[i] # 0 }
        first == CHOOSE i \in nonZero : \A j \in nonZero : i <= j
        last == CHOOSE i \in nonZero : \A j \in nonZero : i >= j
    IN  IF nonZero = {} THEN Zero(sign)
        ELSE [tag |-> "number", sign |-> sign, base |-> 10,
              digits |-> SubSeq(ds, first, last), point |-> point - (first - 1)]

\* the decimal digits of an integer n > 0
RECURSIVE DigitsOf(_)
DigitsOf(n) == IF n < 10 THEN << n >> ELSE Append(DigitsOf(n \div 10), n % 10)

\* an integer as a number
NumberOfInteger(n) ==
    IF n = 0 THEN Zero(1)
    ELSE IF n < 0 THEN Scientific(-1, DigitsOf(-n), Len(DigitsOf(-n)))
    ELSE Scientific(1, DigitsOf(n), Len(DigitsOf(n)))

\* the digits of 5^k, for k from 1 to 54
PowersOfFive ==
    <<
       << 5 >>,
       << 2, 5 >>,
       << 1, 2, 5 >>,
       << 6, 2, 5 >>,
       << 3, 1, 2, 5 >>,
       << 1, 5, 6, 2, 5 >>,
       << 7, 8, 1, 2, 5 >>,
       << 3, 9, 0, 6, 2, 5 >>,
       << 1, 9, 5, 3, 1, 2, 5 >>,
       << 9, 7, 6, 5, 6, 2, 5 >>,
       << 4, 8, 8, 2, 8, 1, 2, 5 >>,
       << 2, 4, 4, 1, 4, 0, 6, 2, 5 >>,
       << 1, 2, 2, 0, 7, 0, 3, 1, 2, 5 >>,
       << 6, 1, 0, 3, 5, 1, 5, 6, 2, 5 >>,
       << 3, 0, 5, 1, 7, 5, 7, 8, 1, 2, 5 >>,
       << 1, 5, 2, 5, 8, 7, 8, 9, 0, 6, 2, 5 >>,
       << 7, 6, 2, 9, 3, 9, 4, 5, 3, 1, 2, 5 >>,
       << 3, 8, 1, 4, 6, 9, 7, 2, 6, 5, 6, 2, 5 >>,
       << 1, 9, 0, 7, 3, 4, 8, 6, 3, 2, 8, 1, 2, 5 >>,
       << 9, 5, 3, 6, 7, 4, 3, 1, 6, 4, 0, 6, 2, 5 >>,
       << 4, 7, 6, 8, 3, 7, 1, 5, 8, 2, 0, 3, 1, 2, 5 >>,
       << 2, 3, 8, 4, 1, 8, 5, 7, 9, 1, 0, 1, 5, 6, 2, 5 >>,
       << 1, 1, 9, 2, 0, 9, 2, 8, 9, 5, 5, 0, 7, 8, 1, 2, 5 >>,
       << 5, 9, 6, 0, 4, 6, 4, 4, 7, 7, 5, 3, 9, 0, 6, 2, 5 >>,
       << 2, 9, 8, 0, 2, 3, 2, 2, 3, 8, 7, 6, 9, 5, 3, 1, 2, 5 >>,
       << 1, 4, 9, 0, 1, 1, 6, 1, 1, 9, 3, 8, 4, 7, 6, 5, 6, 2, 5 >>,
       << 7, 4, 5, 0, 5, 8, 0, 5, 9, 6, 9, 2, 3, 8, 2, 8, 1, 2, 5 >>,
       << 3, 7, 2, 5, 2, 9, 0, 2, 9, 8, 4, 6, 1, 9, 1, 4, 0, 6, 2, 5 >>,
       << 1, 8, 6, 2, 6, 4, 5, 1, 4, 9, 2, 3, 0, 9, 5, 7, 0, 3, 1, 2, 5 >>,
       << 9, 3, 1, 3, 2, 2, 5, 7, 4, 6, 1, 5, 4, 7, 8, 5, 1, 5, 6, 2, 5 >>,
       << 4, 6, 5, 6, 6, 1, 2, 8, 7, 3, 0, 7, 7, 3, 9, 2, 5, 7, 8, 1, 2, 5 >>,
       << 2, 3, 2, 8, 3, 0, 6, 4, 3, 6, 5, 3, 8, 6, 9, 6, 2, 8, 9, 0, 6, 2, 5 >>,
       << 1, 1, 6, 4, 1, 5, 3, 2, 1, 8, 2, 6, 9, 3, 4, 8, 1, 4, 4, 5, 3, 1, 2, 5 >>,
       << 5, 8, 2, 0, 7, 6, 6, 0, 9, 1, 3, 4, 6, 7, 4, 0, 7, 2, 2, 6, 5, 6, 2, 5 >>,
       << 2, 9, 1, 0, 3, 8, 3, 0, 4, 5, 6, 7, 3, 3, 7, 0, 3, 6, 1, 3, 2, 8, 1, 2, 5 >>,
       << 1, 4, 5, 5, 1, 9, 1, 5, 2, 2, 8, 3, 6, 6, 8, 5, 1, 8, 0, 6, 6, 4, 0, 6, 2, 5 >>,
       << 7, 2, 7, 5, 9, 5, 7, 6, 1, 4, 1, 8, 3, 4, 2, 5, 9, 0, 3, 3, 2, 0, 3, 1, 2, 5 >>,
       << 3, 6, 3, 7, 9, 7, 8, 8, 0, 7, 0, 9, 1, 7, 1, 2, 9, 5, 1, 6, 6, 0, 1, 5, 6, 2, 5 >>,
       << 1, 8, 1, 8, 9, 8, 9, 4, 0, 3, 5, 4, 5, 8, 5, 6, 4, 7, 5, 8, 3, 0, 0, 7, 8, 1, 2, 5 >>,
       << 9, 0, 9, 4, 9, 4, 7, 0, 1, 7, 7, 2, 9, 2, 8, 2, 3, 7, 9, 1, 5, 0, 3, 9, 0, 6, 2, 5 >>,
       << 4, 5, 4, 7, 4, 7, 3, 5, 0, 8, 8, 6, 4, 6, 4, 1, 1, 8, 9, 5, 7, 5, 1, 9, 5, 3, 1, 2, 5 >>,
       << 2, 2, 7, 3, 7, 3, 6, 7, 5, 4, 4, 3, 2, 3, 2, 0, 5, 9, 4, 7, 8, 7, 5, 9, 7, 6, 5, 6, 2, 5 >>,
       << 1, 1, 3, 6, 8, 6, 8, 3, 7, 7, 2, 1, 6, 1, 6, 0, 2, 9, 7, 3, 9, 3, 7, 9, 8, 8, 2, 8, 1, 2, 5 >>,
       << 5, 6, 8, 4, 3, 4, 1, 8, 8, 6, 0, 8, 0, 8, 0, 1, 4, 8, 6, 9, 6, 8, 9, 9, 4, 1, 4, 0, 6, 2, 5 >>,
       << 2, 8, 4, 2, 1, 7, 0, 9, 4, 3, 0, 4, 0, 4, 0, 0, 7, 4, 3, 4, 8, 4, 4, 9, 7, 0, 7, 0, 3, 1, 2, 5 >>,
       << 1, 4, 2, 1, 0, 8, 5, 4, 7, 1, 5, 2, 0, 2, 0, 0, 3, 7, 1, 7, 4, 2, 2, 4, 8, 5, 3, 5, 1, 5, 6, 2, 5 >>,
       << 7, 1, 0, 5, 4, 2, 7, 3, 5, 7, 6, 0, 1, 0, 0, 1, 8, 5, 8, 7, 1, 1, 2, 4, 2, 6, 7, 5, 7, 8, 1, 2, 5 >>,
       << 3, 5, 5, 2, 7, 1, 3, 6, 7, 8, 8, 0, 0, 5, 0, 0, 9, 2, 9, 3, 5, 5, 6, 2, 1, 3, 3, 7, 8, 9, 0, 6, 2, 5 >>,
       << 1, 7, 7, 6, 3, 5, 6, 8, 3, 9, 4, 0, 0, 2, 5, 0, 4, 6, 4, 6, 7, 7, 8, 1, 0, 6, 6, 8, 9, 4, 5, 3, 1, 2, 5 >>,
       << 8, 8, 8, 1, 7, 8, 4, 1, 9, 7, 0, 0, 1, 2, 5, 2, 3, 2, 3, 3, 8, 9, 0, 5, 3, 3, 4, 4, 7, 2, 6, 5, 6, 2, 5 >>,
       << 4, 4, 4, 0, 8, 9, 2, 0, 9, 8, 5, 0, 0, 6, 2, 6, 1, 6, 1, 6, 9, 4, 5, 2, 6, 6, 7, 2, 3, 6, 3, 2, 8, 1, 2, 5 >>,
       << 2, 2, 2, 0, 4, 4, 6, 0, 4, 9, 2, 5, 0, 3, 1, 3, 0, 8, 0, 8, 4, 7, 2, 6, 3, 3, 3, 6, 1, 8, 1, 6, 4, 0, 6, 2, 5 >>,
       << 1, 1, 1, 0, 2, 2, 3, 0, 2, 4, 6, 2, 5, 1, 5, 6, 5, 4, 0, 4, 2, 3, 6, 3, 1, 6, 6, 8, 0, 9, 0, 8, 2, 0, 3, 1, 2, 5 >>,
       << 5, 5, 5, 1, 1, 1, 5, 1, 2, 3, 1, 2, 5, 7, 8, 2, 7, 0, 2, 1, 1, 8, 1, 5, 8, 3, 4, 0, 4, 5, 4, 1, 0, 1, 5, 6, 2, 5 >> >>

\* 2^(-k) = 5^k / 10^k, for k from 1 to 54
Pow2Neg(k) == Scientific(1, PowersOfFive[k], Len(PowersOfFive[k]) - k)

\* 2^(-1075), half of the smallest double: 0.d * 10^(-323), d the 752
\* digits of 5^1075
HalfMinDouble ==
    [tag |-> "number", sign |-> 1, base |-> 10, point |-> -323,
     digits |-> <<
       2, 4, 7, 0, 3, 2, 8, 2, 2, 9, 2, 0, 6, 2, 3, 2, 7, 2, 0, 8, 8, 2,
       8, 4, 3, 9, 6, 4, 3, 4, 1, 1, 0, 6, 8, 6, 1, 8, 2, 5, 2, 9, 9, 0,
       1, 3, 0, 7, 1, 6, 2, 3, 8, 2, 2, 1, 2, 7, 9, 2, 8, 4, 1, 2, 5, 0,
       3, 3, 7, 7, 5, 3, 6, 3, 5, 1, 0, 4, 3, 7, 5, 9, 3, 2, 6, 4, 9, 9,
       1, 8, 1, 8, 0, 8, 1, 7, 9, 9, 6, 1, 8, 9, 8, 9, 8, 2, 8, 2, 3, 4,
       7, 7, 2, 2, 8, 5, 8, 8, 6, 5, 4, 6, 3, 3, 2, 8, 3, 5, 5, 1, 7, 7,
       9, 6, 9, 8, 9, 8, 1, 9, 9, 3, 8, 7, 3, 9, 8, 0, 0, 5, 3, 9, 0, 9,
       3, 9, 0, 6, 3, 1, 5, 0, 3, 5, 6, 5, 9, 5, 1, 5, 5, 7, 0, 2, 2, 6,
       3, 9, 2, 2, 9, 0, 8, 5, 8, 3, 9, 2, 4, 4, 9, 1, 0, 5, 1, 8, 4, 4,
       3, 5, 9, 3, 1, 8, 0, 2, 8, 4, 9, 9, 3, 6, 5, 3, 6, 1, 5, 2, 5, 0,
       0, 3, 1, 9, 3, 7, 0, 4, 5, 7, 6, 7, 8, 2, 4, 9, 2, 1, 9, 3, 6, 5,
       6, 2, 3, 6, 6, 9, 8, 6, 3, 6, 5, 8, 4, 8, 0, 7, 5, 7, 0, 0, 1, 5,
       8, 5, 7, 6, 9, 2, 6, 9, 9, 0, 3, 7, 0, 6, 3, 1, 1, 9, 2, 8, 2, 7,
       9, 5, 5, 8, 5, 5, 1, 3, 3, 2, 9, 2, 7, 8, 3, 4, 3, 3, 8, 4, 0, 9,
       3, 5, 1, 9, 7, 8, 0, 1, 5, 5, 3, 1, 2, 4, 6, 5, 9, 7, 2, 6, 3, 5,
       7, 9, 5, 7, 4, 6, 2, 2, 7, 6, 6, 4, 6, 5, 2, 7, 2, 8, 2, 7, 2, 2,
       0, 0, 5, 6, 3, 7, 4, 0, 0, 6, 4, 8, 5, 4, 9, 9, 9, 7, 7, 0, 9, 6,
       5, 9, 9, 4, 7, 0, 4, 5, 4, 0, 2, 0, 8, 2, 8, 1, 6, 6, 2, 2, 6, 2,
       3, 7, 8, 5, 7, 3, 9, 3, 4, 5, 0, 7, 3, 6, 3, 3, 9, 0, 0, 7, 9, 6,
       7, 7, 6, 1, 9, 3, 0, 5, 7, 7, 5, 0, 6, 7, 4, 0, 1, 7, 6, 3, 2, 4,
       6, 7, 3, 6, 0, 0, 9, 6, 8, 9, 5, 1, 3, 4, 0, 5, 3, 5, 5, 3, 7, 4,
       5, 8, 5, 1, 6, 6, 6, 1, 1, 3, 4, 2, 2, 3, 7, 6, 6, 6, 7, 8, 6, 0,
       4, 1, 6, 2, 1, 5, 9, 6, 8, 0, 4, 6, 1, 9, 1, 4, 4, 6, 7, 2, 9, 1,
       8, 4, 0, 3, 0, 0, 5, 3, 0, 0, 5, 7, 5, 3, 0, 8, 4, 9, 0, 4, 8, 7,
       6, 5, 3, 9, 1, 7, 1, 1, 3, 8, 6, 5, 9, 1, 6, 4, 6, 2, 3, 9, 5, 2,
       4, 9, 1, 2, 6, 2, 3, 6, 5, 3, 8, 8, 1, 8, 7, 9, 6, 3, 6, 2, 3, 9,
       3, 7, 3, 2, 8, 0, 4, 2, 3, 8, 9, 1, 0, 1, 8, 6, 7, 2, 3, 4, 8, 4,
       9, 7, 6, 6, 8, 2, 3, 5, 0, 8, 9, 8, 6, 3, 3, 8, 8, 5, 8, 7, 9, 2,
       5, 6, 2, 8, 3, 0, 2, 7, 5, 5, 9, 9, 5, 6, 5, 7, 5, 2, 4, 4, 5, 5,
       5, 0, 7, 2, 5, 5, 1, 8, 9, 3, 1, 3, 6, 9, 0, 8, 3, 6, 2, 5, 4, 7,
       7, 9, 1, 8, 6, 9, 4, 8, 6, 6, 7, 9, 9, 4, 9, 6, 8, 3, 2, 4, 0, 4,
       9, 7, 0, 5, 8, 2, 1, 0, 2, 8, 5, 1, 3, 1, 8, 5, 4, 5, 1, 3, 9, 6,
       2, 1, 3, 8, 3, 7, 7, 2, 2, 8, 2, 6, 1, 4, 5, 4, 3, 7, 6, 9, 3, 4,
       1, 2, 5, 3, 2, 0, 9, 8, 5, 9, 1, 3, 2, 7, 6, 6, 7, 2, 3, 6, 3, 2,
       8, 1, 2, 5 >>]

\* 2^1024 - 2^970, half way from the largest double to 2^1024:
\* 0.d * 10^309, d its 309 digits
OverflowBound ==
    [tag |-> "number", sign |-> 1, base |-> 10, point |-> 309,
     digits |-> <<
       1, 7, 9, 7, 6, 9, 3, 1, 3, 4, 8, 6, 2, 3, 1, 5, 8, 0, 7, 9, 3, 7,
       2, 8, 9, 7, 1, 4, 0, 5, 3, 0, 3, 4, 1, 5, 0, 7, 9, 9, 3, 4, 1, 3,
       2, 7, 1, 0, 0, 3, 7, 8, 2, 6, 9, 3, 6, 1, 7, 3, 7, 7, 8, 9, 8, 0,
       4, 4, 4, 9, 6, 8, 2, 9, 2, 7, 6, 4, 7, 5, 0, 9, 4, 6, 6, 4, 9, 0,
       1, 7, 9, 7, 7, 5, 8, 7, 2, 0, 7, 0, 9, 6, 3, 3, 0, 2, 8, 6, 4, 1,
       6, 6, 9, 2, 8, 8, 7, 9, 1, 0, 9, 4, 6, 5, 5, 5, 5, 4, 7, 8, 5, 1,
       9, 4, 0, 4, 0, 2, 6, 3, 0, 6, 5, 7, 4, 8, 8, 6, 7, 1, 5, 0, 5, 8,
       2, 0, 6, 8, 1, 9, 0, 8, 9, 0, 2, 0, 0, 0, 7, 0, 8, 3, 8, 3, 6, 7,
       6, 2, 7, 3, 8, 5, 4, 8, 4, 5, 8, 1, 7, 7, 1, 1, 5, 3, 1, 7, 6, 4,
       4, 7, 5, 7, 3, 0, 2, 7, 0, 0, 6, 9, 8, 5, 5, 5, 7, 1, 3, 6, 6, 9,
       5, 9, 6, 2, 2, 8, 4, 2, 9, 1, 4, 8, 1, 9, 8, 6, 0, 8, 3, 4, 9, 3,
       6, 4, 7, 5, 2, 9, 2, 7, 1, 9, 0, 7, 4, 1, 6, 8, 4, 4, 4, 3, 6, 5,
       5, 1, 0, 7, 0, 4, 3, 4, 2, 7, 1, 1, 5, 5, 9, 6, 9, 9, 5, 0, 8, 0,
       9, 3, 0, 4, 2, 8, 8, 0, 1, 7, 7, 9, 0, 4, 1, 7, 4, 4, 9, 7, 7, 9,
       2 >>]

\* |a| against |b| for numbers in base 10 other than NaN and zero: -1, 0 or 1
CompareMagnitude(a, b) ==
    IF a.tag = "infinity" THEN (IF b.tag = "infinity" THEN 0 ELSE 1)
    ELSE IF b.tag = "infinity" THEN -1
    ELSE IF a.point # b.point THEN (IF a.point < b.point THEN -1 ELSE 1)
    ELSE CompareDigits(a.digits, b.digits)

\* a < b for numbers in base 10 other than NaN
Less(a, b) ==
    LET signum(n) == IF n.tag = "number" /\ n.digits = << >> THEN 0 ELSE n.sign
    IN  IF signum(a) # signum(b) THEN signum(a) < signum(b)
        ELSE IF signum(a) = 0 THEN FALSE
        ELSE IF signum(a) = 1 THEN CompareMagnitude(a, b) < 0
        ELSE CompareMagnitude(a, b) > 0

\* the position of the leading 1 bit of an integer n, 0 < n < 2^31
Log2(n) == CHOOSE e \in 0..30 : n \div (2^e) = 1

\* 2^31 - 1, the largest whole part that is rounded here, and 2^31
MaxWhole == << 2, 1, 4, 7, 4, 8, 3, 6, 4, 7 >>
AboveMaxWhole == << 2, 1, 4, 7, 4, 8, 3, 6, 4, 8 >>

\* The double nearest to a decimal value (ties to even), where it is zero,
\* an infinity or an integer up to 2^31; any other value stands for the
\* double nearest to it, which lies between the same two integers.
\* The doubles next to an integer c with 2^e <= c < 2^(e+1) are at
\* c + 2^(e-52) and at c - 2^(e-52), or c - 2^(e-53) when c = 2^e; c has an
\* even significand, so a value half way to either is rounded to c.
RoundToDouble(n) ==
    IF n.tag # "number" \/ n.digits = << >> \/ n.base # 10 THEN n
    ELSE IF CompareMagnitude(n, HalfMinDouble) <= 0 THEN Zero(n.sign)
    ELSE IF CompareMagnitude(n, OverflowBound) >= 0 THEN Infinite(n.sign)
    ELSE IF n.point < 0 \/ n.point > Len(MaxWhole) \/ Len(n.digits) <= n.point
    THEN n
    ELSE LET whole == SubSeq(n.digits, 1, n.point)
             rest == SubSeq(n.digits, n.point + 1, Len(n.digits))
             below == IF whole = << >> THEN 0 ELSE
                          DecimalValue([i \in 1..Len(whole) |-> Digit36[whole[i] + 1]])
             \* below + 1 is a power of 2
             abovePower ==
                 below = 0 \/ below = (2^Log2(below) - 1) + 2^Log2(below)
             \* the position of the leading 1 bit of below + 1
             aboveLog ==
                 IF below = 0 THEN 0
                 ELSE IF abovePower THEN Log2(below) + 1 ELSE Log2(below)
             above ==
                 IF whole = MaxWhole THEN Scientific(n.sign, AboveMaxWhole, Len(AboveMaxWhole))
                 ELSE [NumberOfInteger(below + 1) EXCEPT !.sign = n.sign]
             up == Scientific(1, rest, 0)
             down == Scientific(1, [i \in 1..Len(rest) |->
                                       IF i = Len(rest) THEN 10 - rest[i]
                                       ELSE 9 - rest[i]], 0)
             halfBelowAbove ==
                 IF abovePower THEN Pow2Neg(54 - aboveLog)
                 ELSE Pow2Neg(53 - aboveLog)
         IN  IF Len(whole) = Len(MaxWhole) /\ CompareDigits(whole, MaxWhole) > 0
             THEN n
             ELSE IF below > 0 /\ CompareMagnitude(up, Pow2Neg(53 - Log2(below))) <= 0
             THEN [NumberOfInteger(below) EXCEPT !.sign = n.sign]
             ELSE IF CompareMagnitude(down, halfBelowAbove) <= 0
             THEN above
             ELSE n

\* WhiteSpace and LineTerminator of the language
WhiteSpace ==
    { " ", "\t", "\n", "\r", "\f", "U+000B", "U+00A0", "U+FEFF", "U+1680",
      "U+2000", "U+2001", "U+2002", "U+2003", "U+2004", "U+2005", "U+2006",
      "U+2007", "U+2008", "U+2009", "U+200A", "U+2028", "U+2029", "U+202F",
      "U+205F", "U+3000" }

\* the string without the white space at its ends
Trim(chars) ==
    LET kept == { i \in 1..Len(chars) : chars[i] \notin WhiteSpace }
    IN  IF kept = {} THEN << >>
        ELSE SubSeq(chars, CHOOSE i \in kept : \A j \in kept : i <= j,
                           CHOOSE i \in kept : \A j \in kept : i >= j)

AllDecimal(chars) == \A i \in 1..Len(chars) : chars[i] \in DecimalDigits

\* the exponents of the model: a longer exponent reads as this one, which is
\* beyond the range of the doubles for a mantissa of fewer digits
MaxExponent == 1000000

\* the value of the digits of an exponent part
ExponentValue(chars) ==
    LET nonZero == { i \in 1..Len(chars) : chars[i] # "0" }
        first == CHOOSE i \in nonZero : \A j \in nonZero : i <= j
    IN  IF nonZero = {} THEN 0
        ELSE IF Len(chars) - first + 1 > 6 THEN MaxExponent
        ELSE DecimalValue(SubSeq(chars, first, Len(chars)))

\* StrUnsignedDecimalLiteral: digits, an optional '.', digits, and an
\* optional exponent part; at least one digit before the exponent part
UnsignedDecimal(chars, sign) ==
    LET es == { i \in 1..Len(chars) : chars[i] \in {"e", "E"} }
        e == IF es = {} THEN Len(chars) + 1
             ELSE CHOOSE i \in es : \A j \in es : i <= j
        mantissa == SubSeq(chars, 1, e - 1)
        exponent == SubSeq(chars, e + 1, Len(chars))
        signed == exponent # << >> /\ exponent[1] \in {"+", "-"}
        expDigits == IF signed THEN Tail(exponent) ELSE exponent
        expValue == IF es = {} THEN 0
                    ELSE IF signed /\ exponent[1] = "-" THEN 0 - ExponentValue(expDigits)
                    ELSE ExponentValue(expDigits)
        dots == { i \in 1..Len(mantissa) : mantissa[i] = "." }
        dot == IF dots = {} THEN Len(mantissa) + 1
               ELSE CHOOSE i \in dots : \A j \in dots : i <= j
        whole == SubSeq(mantissa, 1, dot - 1)
        fraction == SubSeq(mantissa, dot + 1, Len(mantissa))
    IN  IF /\ es # {} => (expDigits # << >> /\ AllDecimal(expDigits))
           /\ AllDecimal(whole) /\ AllDecimal(fraction)
           /\ whole \o fraction # << >>
        THEN Scientific(sign, DigitsOfChars(whole \o fraction), Len(whole) + expValue)
        ELSE NaN

InfinityChars == << "I", "n", "f", "i", "n", "i", "t", "y" >>

\* StrDecimalLiteral: an optional sign, then Infinity or an unsigned literal
SignedDecimal(chars) ==
    LET signed == chars # << >> /\ chars[1] \in {"+", "-"}
        sign == IF signed /\ chars[1] = "-" THEN -1 ELSE 1
        rest == IF signed THEN Tail(chars) ELSE chars
    IN  IF rest = InfinityChars THEN Infinite(sign) ELSE UnsignedDecimal(rest, sign)

UpperHex == << "A", "B", "C", "D", "E", "F" >>

\* the value of a digit of a literal in base 2, 8 or 16; 16 for any other
\* character
RadixValue(c) ==
    IF \E i \in 1..Len(UpperHex) : UpperHex[i] = c
    THEN 9 + (CHOOSE i \in 1..Len(UpperHex) : UpperHex[i] = c)
    ELSE IF \E i \in 1..16 : Digit36[i] = c THEN DigitValue(c)
    ELSE 16

\* the base that the prefix of a NonDecimalIntegerLiteral names, 0 for none
Radix(chars) ==
    IF Len(chars) < 3 \/ chars[1] # "0" THEN 0
    ELSE IF chars[2] \in {"x", "X"} THEN 16
    ELSE IF chars[2] \in {"o", "O"} THEN 8
    ELSE IF chars[2] \in {"b", "B"} THEN 2
    ELSE 0

\* the bits of a sequence of digits in base 2, 8 or 16
Bits(values, base) ==
    LET width == IF base = 16 THEN 4 ELSE IF base = 8 THEN 3 ELSE 1
    IN  [i \in 1..(width * Len(values)) |->
            (values[((i - 1) \div width) + 1]
                 \div (2^(width - 1 - ((i - 1) % width)))) % 2]

\* the integer that a sequence of at most 31 bits is
RECURSIVE BinaryValue(_)
BinaryValue(bits) ==
    IF bits = << >> THEN 0
    ELSE 2 * BinaryValue(SubSeq(bits, 1, Len(bits) - 1)) + bits[Len(bits)]

\* the integer with the given bits: below 2^31 in base 10; from 2^1024 - 2^970,
\* which has 1024 bits of which the first 54 are 1, an infinity; any other
\* one in base 2, where it stands for the double nearest to it
NumberOfBits(bits) ==
    LET n == [Scientific(1, bits, Len(bits)) EXCEPT !.base = 2]
        leading == SubSeq(bits, Len(bits) - n.point + 1, Len(bits))
    IN  IF n.digits = << >> THEN Zero(1)
        ELSE IF n.point <= 31 THEN NumberOfInteger(BinaryValue(leading))
        ELSE IF \/ n.point > 1024
                \/ n.point = 1024 /\ \A i \in 1..54 : leading[i] = 1
        THEN Infinite(1)
        ELSE n

\* StringToNumber: the value of the StringNumericLiteral, NaN for any other
\* string; the empty string is 0
StringToNumber(chars) ==
    LET s == Trim(chars)
        digits == [i \in 1..(Len(s) - 2) |-> RadixValue(s[i + 2])]
    IN  IF s = << >> THEN Zero(1)
        ELSE IF Radix(s) # 0
        THEN IF \A i \in 1..Len(digits) : digits[i] < Radix(s)
             THEN NumberOfBits(Bits(digits, Radix(s)))
             ELSE NaN
        ELSE SignedDecimal(s)

\* c < n and c > n for an integer c below 2^31 and a number n other than NaN
IntegerLess(c, n) ==
    IF n.base = 2 THEN n.sign = 1 ELSE Less(NumberOfInteger(c), n)

IntegerGreater(c, n) ==
    IF n.base = 2 THEN n.sign = -1 ELSE Less(n, NumberOfInteger(c))

\* Number(text) for a string
NumberOf(text) == RoundToDouble(StringToNumber(text.chars))

\* text ? Number(text) : undefined
Timestamp(text) ==
    IF text.tag = "undefined" \/ text.chars = << >>
    THEN [tag |-> "undefined", sign |-> 1, base |-> 10, digits |-> << >>, point |-> 0]
    ELSE NumberOf(text)

\* if (n): a number other than 0 and NaN
TruthyNumber(n) ==
    \/ n.tag = "infinity"
    \/ n.tag = "number" /\ n.digits # << >>

----------------------------------------------------------------------------
(* GET /issues *)

\* a slip: the media of each listed issue blanked on the stored record
GetIssuesRedactsInPlace(q) ==
    /\ issues' = [id \in DOMAIN issues |-> [issues[id] EXCEPT !.media = NullMedia]]
    /\ resp' = [Response("list", 200, NoId) EXCEPT !.list = ObjectValues(issues', keyOrder.issues)]
    /\ UNCHANGED <<now, setBacks, objectPrototype, users, keyOrder>>

\* A query parameter is a string or was not sent.  req.query is built by the
\* query parser of Express, of which the source pins no version: the parser
\* of Express 4 builds a plain object (q.plain), which inherits from
\* Object.prototype, the parser of Express 5 an object without prototype.
\* A parameter that was not sent is looked up on the prototype of a plain
\* object; the handlers write status and priority there, never category,
\* from or to.
QueryField(q, f) ==
    IF q[f] = Undefined /\ q.plain THEN objectPrototype[f] ELSE q[f]

GetIssues(q) ==
    LET all == ObjectValues(issues, keyOrder.issues)
        status == QueryField(q, "status")
        priority == QueryField(q, "priority")
        byCategory ==
            IF Truthy(q.category)
            THEN SelectSeq(all, LAMBDA i : i.category = q.category) ELSE all
        byStatus ==
            IF Truthy(status)
            THEN SelectSeq(byCategory, LAMBDA i : i.status = status)
            ELSE byCategory
        byPriority ==
            IF Truthy(priority)
            THEN SelectSeq(byStatus, LAMBDA i : i.priority = priority)
            ELSE byStatus
        fromTs == Timestamp(q.from)
        toTs == Timestamp(q.to)
        byFrom ==
            IF TruthyNumber(fromTs)
            THEN SelectSeq(byPriority,
                           LAMBDA i : ~IntegerLess(i.createdAt, fromTs))
            ELSE byPriority
        byTo ==
            IF TruthyNumber(toTs)
            THEN SelectSeq(byFrom,
                           LAMBDA i : ~IntegerGreater(i.createdAt, toTs))
            ELSE byFrom
    IN  /\ resp' = [Response("list", 200, NoId) EXCEPT !.list = byTo]
        /\ UNCHANGED <<now, setBacks, issues, objectPrototype, users, keyOrder>>

----------------------------------------------------------------------------
(* POST /auth/signup and POST /auth/login *)

NewUser(req) ==
    [id |-> ToString36(now), email |-> req.email, aadhaar |-> req.aadhaar,
     password |-> req.password, role |-> req.role, language |-> req.language]

\* a slip: the stored record returned as it is
WholeUser(u) == u

\* user: { id, role, email, aadhaar, language }
PublicUser(u) ==
    [id |-> u.id, role |-> u.role, email |-> u.email,
     aadhaar |-> u.aadhaar, language |-> u.language]

Signup(req, maxUsers) ==
    LET id == ToString36(now)
    IN  IF (Falsy(req.email) /\ Falsy(req.aadhaar))
              \/ Falsy(req.password) \/ Falsy(req.role)
        THEN /\ resp' = Response("signup", 400, NoId)
             /\ UNCHANGED <<now, setBacks, issues, objectPrototype, users, keyOrder>>
        ELSE /\ Cardinality(DOMAIN users \cup {id}) <= maxUsers
             /\ users' = (id :> NewUser(req)) @@ users
             /\ resp' = [Response("signup", 200, id) EXCEPT
                            !.token = DevPrefix \o id,
                            !.user = PublicUser(NewUser(req))]
             /\ keyOrder' = [keyOrder EXCEPT !.users = Inserted(@, id)]
             /\ UNCHANGED <<now, setBacks, issues, objectPrototype>>

\* the predicate of find
Matches(u, req) ==
    /\ u.email = req.identifier \/ u.aadhaar = req.identifier
    /\ u.password = req.password

\* Object.values(users).find(...): the first match, undefined when none
Found(req) ==
    SelectSeq(ObjectValues(users, keyOrder.users), LAMBDA u : Matches(u, req))

Login(req) ==
    /\ resp' = IF Found(req) = << >>
               THEN Response("login", 401, NoId)
               ELSE [Response("login", 200, Found(req)[1].id) EXCEPT
                        !.token = DevPrefix \o Found(req)[1].id,
                        !.user = PublicUser(Found(req)[1])]
    /\ UNCHANGED <<now, setBacks, issues, objectPrototype, users, keyOrder>>

----------------------------------------------------------------------------
(* The clock *)

AdvanceMs ==
    /\ (now - 1) % OneWeekMs < MaxSkew
    /\ now' = now + 1
    /\ UNCHANGED <<issues, objectPrototype, users, keyOrder, setBacks, resp>>

AdvanceWeek ==
    /\ (now - 1) \div OneWeekMs < MaxWeeks
    /\ now' = now + OneWeekMs
    /\ UNCHANGED <<issues, objectPrototype, users, keyOrder, setBacks, resp>>

\* Date.now() reads the wall clock, which the system can set, back as well
\* as forward: the next reading is any of readings, an earlier one at most
\* maxSetBacks times
SetClock(readings, maxSetBacks) ==
    /\ \E t \in readings \ {now} :
          /\ t < now => setBacks < maxSetBacks
          /\ now' = t
          /\ setBacks' = IF t < now THEN setBacks + 1 ELSE setBacks
    /\ UNCHANGED <<issues, objectPrototype, users, keyOrder, resp>>

\* the readings of the lifecycle: the first milliseconds of each week
ClockReadings ==
    { w * OneWeekMs + 1 + s : w \in 0..MaxWeeks, s \in 0..MaxSkew }

\* the set-backs of the lifecycle: a correction of the clock by a millisecond
MillisecondBack == {now - 1} \cap ClockReadings

\* the readings of GET /issues: reading 1 gives the key '1', which is an
\* array index, readings 10 and 11 give the keys 'a' and 'b', which are none
WallClock == {1, 10, 11}

----------------------------------------------------------------------------
(* Requests *)

GoodToken == DevPrefix \o << "u", "1" >>
BadToken == << "u", "1" >>

\* a string by its pieces between commas: the pieces before the last by
\* their lengths, the last by its length and its trailing '='
Pieces(header, len, pad) ==
    [tag |-> "string",
     parts |-> [i \in 1..Len(header) |-> [len |-> header[i], pad |-> 0]]
                   \o << [len |-> len, pad |-> pad] >>]

\* base64 of a payload of n bytes, with '=' padding
Base64Of(n) == [len |-> 4 * CeilDiv(n, 3), pad |-> (3 - (n % 3)) % 3]

\* canvas.toDataURL('image/jpeg') by the base64 of the JPEG file:
\* 'data:image/jpeg;base64,' and the base64; a canvas without pixels, of a
\* video that has no frame yet, has no file and gives 'data:,'
DataUrl(len, pad) ==
    IF len = 0 THEN Pieces(<< 5 >>, 0, 0) ELSE Pieces(<< 22 >>, len, pad)

MaxPhotoBytes == 20 * 1024 * 1024

\* takePhoto for a frame whose JPEG file has n bytes, 0 for a frame without
\* pixels: the media that is set, null for a photo over the threshold
TakePhoto(n) ==
    LET dataUrl == DataUrl(Base64Of(n).len, Base64Of(n).pad)
        sizeBytes == CeilDiv(Base64Length(dataUrl) * 3, 4)
    IN  IF sizeBytes > MaxPhotoBytes THEN NullMedia
        ELSE [tag |-> "object", type |-> "photo", data |-> dataUrl]

\* reader.readAsDataURL(blob) for a blob of n > 0 bytes: 'data:', the type
\* of the blob, ';base64,' and the base64.  header is the pieces of the
\* string before the base64.
ReadAsDataURL(header, n) == Pieces(header, Base64Of(n).len, Base64Of(n).pad)

\* The blob of a video has the type of the recorder's first chunk, which
\* names the codecs with a comma between them: the pieces
\* 'data:video/webm;codecs=vp8' and 'opus;base64' (the type is the
\* browser's choice; the gate reads no piece of a video).  The blob of a
\* voice note is given the type 'audio/webm': 'data:audio/webm;base64'.
VideoHeader == << 26, 11 >>
VoiceHeader == << 22 >>

\* the media object that the client sets for a capture of n bytes: a photo,
\* a video recording, a voice note
MediaOf(type, n) ==
    CASE type = "photo" -> TakePhoto(n)
      [] type = "video" ->
            [tag |-> "object", type |-> type, data |-> ReadAsDataURL(VideoHeader, n)]
      [] type = "audio" ->
            [tag |-> "object", type |-> type, data |-> ReadAsDataURL(VoiceHeader, n)]

BigPhoto == MediaOf("photo", 50000)

CreateRequest(token, description, priority, media, department) ==
    [token |-> token, description |-> description, priority |-> priority,
     category |-> Undefined, emergency |-> Undefined, location |-> Undefined,
     media |-> media, voice |-> NoMedia, department |-> department]

\* lifecycle: creates that are accepted, with and without media and
\* department (the creates that are refused are requests of AuthSpec and
\* PatchSpec)
CreateRequests ==
    { CreateRequest(t, d, p, m, dep) :
        t \in {GoodToken}, d \in {"pothole on 5th"},
        p \in {"High"}, m \in {NoMedia, BigPhoto},
        dep \in {Undefined, "Roads"} }

UnknownId == << "x", "y", "z" >>

\* lifecycle: requests on stored identifiers
PatchRequests ==
    [id : DOMAIN issues,
     status : {Undefined, "Resolved", "Verified"},
     department : {Undefined, "", "Roads"},
     priority : {Undefined}]

----------------------------------------------------------------------------
(* Requests that exercise the media heuristic *)

MediaTypes == {"photo", "video", "audio"}

\* payload sizes around the photo threshold, in bytes
PayloadSizes == {0, MinPhotoBytes - 2, MinPhotoBytes - 1, MinPhotoBytes}

\* the smallest JPEG file that takePhoto drops: its size is taken from the
\* base64 with the padding, the next multiple of 3
OverPhotoBytes == MaxPhotoBytes - 1

\* base64 of a payload of n bytes, without padding
Base64UnpaddedOf(n) == [len |-> CeilDiv(4 * n, 3), pad |-> 0]

MediaUnpaddedOf(type, n) ==
    [tag |-> "object", type |-> type,
     data |-> Pieces(<< 22 >>, Base64UnpaddedOf(n).len, 0)]

\* a string with no comma in it
MediaNoComma(type) ==
    [tag |-> "object", type |-> type,
     data |-> [tag |-> "string", parts |-> << [len |-> 20000, pad |-> 0] >>]]

\* an object with no data property
MediaNoData(type) ==
    [tag |-> "object", type |-> type, data |-> [tag |-> "undefined", parts |-> <<>>]]

GateMedia ==
    {NoMedia, NullMedia, BigPhoto}
        \cup { MediaOf("photo", n) : n \in PayloadSizes \cup {OverPhotoBytes} }
        \cup { MediaOf(t, n) : t \in MediaTypes \ {"photo"}, n \in PayloadSizes \ {0} }
        \cup { MediaUnpaddedOf(t, n) : t \in MediaTypes, n \in PayloadSizes }
        \cup { MediaNoComma(t) : t \in MediaTypes }
        \cup { MediaNoData(t) : t \in MediaTypes }

GateRequests ==
    { CreateRequest(GoodToken, "pothole on 5th", "Medium", m, Undefined) :
        m \in GateMedia }

\* update semantics: every kind of supplied value, on stored and unknown ids
WidePatchRequests ==
    [id : DOMAIN issues \cup {UnknownId},
     status : {Undefined, Null, "", "Resolved"},
     department : {Undefined, Null, "", "Roads"},
     priority : {Undefined, "", "Low"}]

\* requests whose :id names a property that the store object inherits:
\* Object.prototype, two of its functions, and the status written on it
PrototypePatchRequests ==
    [id : {ProtoKey, ConstructorKey, ToStringKey, StatusKey},
     status : {Undefined, "Verified"},
     department : {Undefined},
     priority : {Undefined, "Low"}]

PatchCreateRequests ==
    { CreateRequest(GoodToken, "pothole on 5th", p, BigPhoto, Undefined) :
        p \in {"High", Undefined} }

----------------------------------------------------------------------------
Next ==
    \/ \E req \in CreateRequests : PostIssues(req, MaxIssues)
    \/ \E req \in PatchRequests : PatchIssue(req)
    \/ EscalationTick
    \/ AdvanceMs
    \/ AdvanceWeek
    \/ SetClock(MillisecondBack, MaxSetBacks)

Spec == Init /\ [][Next]_vars

GateNext ==
    \/ \E m \in GateMedia : PostVerify(m)
    \/ \E req \in GateRequests : PostIssues(req, GateMaxIssues)
    \/ AdvanceMs

GateSpec == Init /\ [][GateNext]_vars

PatchNext ==
    \/ \E req \in PatchCreateRequests : PostIssues(req, PatchMaxIssues)
    \/ \E req \in WidePatchRequests : PatchIssue(req)
    \/ \E req \in PrototypePatchRequests : PatchIssue(req)
    \/ AdvanceMs

PatchSpec == Init /\ [][PatchNext]_vars

----------------------------------------------------------------------------
(* Requests and specification for GET /issues *)

\* every two of priority, media and category take their four combinations
ListCreateRequests ==
    { [CreateRequest(GoodToken, "pothole on 5th", k[1], k[2], Undefined)
          EXCEPT !.category = k[3]] :
        k \in { << "High", NoMedia, Undefined >>, << "High", BigPhoto, "Roads" >>,
                << "Low", NoMedia, "Roads" >>, << "Low", BigPhoto, Undefined >> } }

Queries ==
    [category : {Undefined, "", "Roads"},
     status : {Undefined, "Spam"},
     priority : {Undefined, "High"},
     from : {Absent, Text(<< "0" >>), Text(<< "2" >>)},
     to : {Absent, Text(<< "0" >>), Text(<< "1" >>)},
     plain : BOOLEAN]

\* bounds that Number() reads by the rest of its grammar: an exponent, white
\* space, a hexadecimal literal, a fraction, a sign, Infinity, no number
BoundQueries ==
    [category : {Undefined}, status : {Undefined}, priority : {Undefined},
     from : {Absent, Text(<< "2", "e", "0" >>), Text(<< " ", "2" >>),
             Text(<< "1", ".", "5" >>), Text(<< "-", "1" >>)},
     to : {Absent, Text(<< "0", "x", "1" >>), Text(<< "I", "n", "f", "i", "n", "i", "t", "y" >>),
           Text(<< "x" >>)},
     plain : {FALSE}]

\* the PATCH that writes a status on Object.prototype
ListPatchRequests ==
    [id : {ProtoKey}, status : {"Spam"}, department : {Undefined},
     priority : {Undefined}]

ListNext ==
    \/ \E req \in ListCreateRequests : PostIssues(req, ListMaxIssues)
    \/ \E req \in ListPatchRequests : PatchIssue(req)
    \/ \E q \in Queries : GetIssues(q)
    \/ \E q \in BoundQueries : GetIssues(q)
    \/ SetClock(WallClock, ListMaxSetBacks)

ListSpec == Init /\ [][ListNext]_vars

----------------------------------------------------------------------------
(* Requests and specification for signup, login and the token of create *)

SignupRequests ==
    [email : {Undefined, "a@x.in"},
     aadhaar : {Undefined, "123412341234"},
     password : {Undefined, "pw"},
     role : {Undefined, "User"},
     language : {Undefined}]

LoginRequests ==
    [identifier : {Undefined, "a@x.in", "123412341234", "nobody"},
     password : {Undefined, "pw", "wrong"}]

\* the tokens that signup has returned for the users in the table
IssuedTokens == { DevPrefix \o id : id \in DOMAIN users }

\* no token, a token without the prefix, a prefixed token that no signup
\* returned, and the tokens that signups returned
AuthCreateRequests ==
    { CreateRequest(t, d, "High", NoMedia, Undefined) :
        t \in {NoId, BadToken, GoodToken} \cup IssuedTokens,
        d \in {"pothole on 5th", Undefined} }

AuthNext ==
    \/ \E req \in SignupRequests : Signup(req, AuthMaxUsers)
    \/ \E req \in LoginRequests : Login(req)
    \/ \E req \in AuthCreateRequests : PostIssues(req, AuthMaxIssues)
    \/ AdvanceMs

AuthSpec == Init /\ [][AuthNext]_vars

----------------------------------------------------------------------------
(* The media heuristic at creation: C1, C2, C3, under GateSpec *)

\* a successful POST /issues of request req
Created(req, maxIssues) ==
    PostIssues(req, maxIssues) /\ resp'.op = "create" /\ resp'.code = 200

AbsentMedia(m) == m.tag \in {"undefined", "null"}

\* the size in bytes of the payload a data string carries after its first
\* comma: 6 bits for each base64 character that is not padding
PayloadBytes(data) ==
    IF Len(data.parts) >= 2
    THEN ((data.parts[2].len - data.parts[2].pad) * 3) \div 4
    ELSE 0

\* C1: every successful create stores the issue with status Reported when
\* the gate accepts the submitted media and Spam otherwise, and a create
\* with no media stores Spam, the gate's reason being 'No media'.  (Under
\* GateSpec no request updates an issue: each stored status is the initial one.)
C1_InitialStatusFollowsGate ==
    /\ (resp.op = "create" /\ resp.code = 200) => resp.id \in DOMAIN issues
    /\ \A id \in DOMAIN issues :
          /\ issues[id].status \in {"Reported", "Spam"}
          /\ issues[id].status = "Reported"
                <=> VerifyMediaHeuristic(issues[id].media).isGenuine
          /\ AbsentMedia(issues[id].media) =>
                /\ issues[id].status = "Spam"
                /\ VerifyMediaHeuristic(issues[id].media).reason = "No media"

\* a create with no media has stored Spam and one with accepted media Reported
C1_Witness ==
    /\ resp.op = "create" /\ resp.code = 200
    /\ \E a, b \in DOMAIN issues :
          /\ issues[a].media = NullMedia /\ issues[a].status = "Spam"
          /\ issues[b].media = BigPhoto /\ issues[b].status = "Reported"

\* C2: a photo submitted to create yields Spam when its payload is below
\* 10,000 bytes and Reported when it is 10,000 bytes or more.
C2_PhotoThreshold ==
    \A id \in DOMAIN issues :
        ( /\ issues[id].media.tag = "object"
          /\ issues[id].media.type = "photo"
          /\ issues[id].media.data.tag = "string" ) =>
            issues[id].status =
                IF PayloadBytes(issues[id].media.data) < 10000
                THEN "Spam" ELSE "Reported"

\* a photo of 9,999 bytes stored as Spam beside one of 10,000 bytes stored
\* as Reported
C2_Witness ==
    \E a, b \in DOMAIN issues :
        /\ issues[a].media = MediaOf("photo", 9999) /\ issues[a].status = "Spam"
        /\ issues[b].media = MediaOf("photo", 10000) /\ issues[b].status = "Reported"

\* a present media with no data, or with a data string that has nothing
\* after its comma or no comma at all
NoPayload(m) ==
    /\ m.tag = "object"
    /\ \/ m.data.tag # "string"
       \/ Len(m.data.parts) < 2
       \/ m.data.parts[2].len = 0

\* C3: every present media whose payload cannot be decoded is rejected
\* with reason 'Invalid media data', as a result and not as an error, at
\* POST /verify and at create, whatever its declared kind.
C3_UndecodableAlwaysInvalid ==
    [][ /\ \A m \in GateMedia :
              (PostVerify(m) /\ NoPayload(m)) =>
                  /\ resp'.code = 200
                  /\ ~resp'.isGenuine
                  /\ resp'.reason = "Invalid media data"
        /\ \A req \in GateRequests :
              (Created(req, GateMaxIssues) /\ NoPayload(req.media)) =>
                  issues'[resp'.id].status = "Spam"
      ]_vars

----------------------------------------------------------------------------
(* The escalation interval: C4 to C8, under Spec *)

\* a step in which the interval callback ran
TickStep == resp'.op = "tick" /\ now' = now

\* a step in which PATCH /issues/:id ran
PatchStep == resp'.op = "patch" /\ now' = now

SevenDays == 7 * 24 * 60 * 60 * 1000

\* older than seven days at time t
OlderThanAWeek(issue, t) == t - issue.createdAt > SevenDays

\* C4: after a tick, every issue that was not Resolved and older than 7
\* days is Assigned whatever its status was, has department 'Commissioner'
\* if it had none, and has updatedAt equal to the tick time; so every
\* issue older than 7 days is then Assigned or Resolved.
C4_TickEscalatesStale ==
    [][ TickStep =>
          /\ resp'.at = now
          /\ \A id \in DOMAIN issues :
                (issues[id].status # "Resolved" /\ OlderThanAWeek(issues[id], now)) =>
                    /\ issues'[id].status = "Assigned"
                    /\ issues[id].department = Undefined =>
                          issues'[id].department = "Commissioner"
                    /\ issues'[id].updatedAt = now
          /\ \A id \in DOMAIN issues' :
                OlderThanAWeek(issues'[id], now) =>
                    issues'[id].status \in {"Assigned", "Resolved"}
      ]_vars

\* a tick has escalated an issue that was created without media, hence as
\* Spam, and without a department
C4_Witness ==
    /\ resp.op = "tick"
    /\ \E id \in DOMAIN issues :
          /\ issues[id].media = NullMedia
          /\ OlderThanAWeek(issues[id], resp.at)
          /\ issues[id].status = "Assigned"
          /\ issues[id].department = "Commissioner"
          /\ issues[id].updatedAt = resp.at

\* C5: a tick leaves every Resolved issue and every issue at most 7 days
\* old (exactly 7 days included) as it was, in every field, and neither
\* adds nor removes an issue.
C5_TickFrame ==
    [][ TickStep =>
          /\ DOMAIN issues' = DOMAIN issues
          /\ \A id \in DOMAIN issues :
                (issues[id].status = "Resolved" \/ now - issues[id].createdAt <= SevenDays) =>
                    /\ issues'[id].status = issues[id].status
                    /\ issues'[id].department = issues[id].department
                    /\ issues'[id].priority = issues[id].priority
                    /\ issues'[id].updatedAt = issues[id].updatedAt
                    /\ issues'[id] = issues[id]
      ]_vars

\* a tick has run over an issue exactly 7 days old, still Reported and
\* untouched, and over a Resolved issue older than 7 days, untouched
C5_Witness ==
    /\ resp.op = "tick"
    /\ \E a, b \in DOMAIN issues :
          /\ resp.at - issues[a].createdAt = SevenDays
          /\ issues[a].status = "Reported"
          /\ issues[a].updatedAt = issues[a].createdAt
          /\ OlderThanAWeek(issues[b], resp.at)
          /\ issues[b].status = "Resolved"
          /\ issues[b].updatedAt < resp.at

C7_EscalationIdempotent ==
    [][ (TickStep /\ resp.op = "tick") =>
          \A id \in DOMAIN issues :
              (issues[id].status # "Resolved" /\ OlderThanAWeek(issues[id], resp.at)) =>
                  /\ issues[id].status = "Assigned"
                  /\ issues'[id].status = "Assigned"
                  /\ issues'[id].department = issues[id].department
      ]_vars

\* two ticks have run in a row over an issue that the scan gave the
\* department 'Commissioner'
C7_Witness ==
    /\ resp.op = "tick" /\ resp.run = 2
    /\ \E id \in DOMAIN issues :
          /\ OlderThanAWeek(issues[id], resp.at)
          /\ issues[id].status = "Assigned"
          /\ issues[id].department = "Commissioner"
          /\ issues[id].updatedAt = resp.at

\* C8 as stated: a tick keeps the department of every stale non-Resolved
\* issue whose department was set to any value, the empty string included.
C8_DepartmentNeverOverwritten ==
    [][ TickStep =>
          \A id \in DOMAIN issues :
              ( /\ issues[id].status # "Resolved"
                /\ OlderThanAWeek(issues[id], now)
                /\ issues[id].department # Undefined ) =>
                  issues'[id].department = issues[id].department
      ]_vars

\* C8 amended: a tick keeps the department of every stale non-Resolved
\* issue whose department is a non-empty string; an empty-string or null
\* department counts as none and becomes 'Commissioner'.
C8_NonEmptyDepartmentKept ==
    [][ TickStep =>
          \A id \in DOMAIN issues :
              (issues[id].status # "Resolved" /\ OlderThanAWeek(issues[id], now)) =>
                  issues'[id].department =
                      IF issues[id].department \in {Undefined, Null, ""}
                      THEN "Commissioner"
                      ELSE issues[id].department
      ]_vars

\* a tick has escalated an issue whose department was 'Roads' and has
\* kept it
C8_Witness ==
    /\ resp.op = "tick"
    /\ \E id \in DOMAIN issues :
          /\ OlderThanAWeek(issues[id], resp.at)
          /\ issues[id].status = "Assigned"
          /\ issues[id].department = "Roads"
          /\ issues[id].updatedAt = resp.at

----------------------------------------------------------------------------
(* PATCH /issues/:id: C9 and C10, under PatchSpec *)

\* C9: a PATCH on an identifier that is not in the store answers 404 and
\* leaves the store as it was.
C9_UnknownIdNotFound ==
    [][ (PatchStep /\ resp'.id \notin DOMAIN issues) =>
          resp'.code = 404 /\ issues' = issues
      ]_vars

PatchFields == {"status", "department", "priority"}

\* C10: a successful PATCH gives every supplied field the supplied value,
\* an empty string or null included, and leaves every field that is not
\* supplied as it was.
C10_ExactlySuppliedFields ==
    [][ \A req \in WidePatchRequests :
          (PatchIssue(req) /\ req.id \in DOMAIN issues) =>
              \A f \in PatchFields :
                  issues'[req.id][f] =
                      IF req[f] # Undefined THEN req[f] ELSE issues[req.id][f]
      ]_vars

----------------------------------------------------------------------------
(* Timestamps: C11 and C12, under Spec *)

\* C11: every stored issue has createdAt <= updatedAt, and the issue that a
\* create has just stored has both timestamps equal to the clock reading of
\* that create (the reading its identifier is written from).
C11_CreatedBeforeUpdated ==
    /\ \A id \in DOMAIN issues :
          issues[id].createdAt <= issues[id].updatedAt
    /\ (resp.op = "create" /\ resp.code = 200) =>
          /\ resp.id \in DOMAIN issues
          /\ issues[resp.id].createdAt = Value36(resp.id)
          /\ issues[resp.id].updatedAt = Value36(resp.id)

\* C12: no step lowers the updatedAt of a stored issue; every successful
\* PATCH of an issue, whatever its body supplies, and every escalation of
\* an issue by a tick sets its updatedAt to the clock reading of the step.
C12_UpdatedAtMonotone ==
    [][ \A id \in DOMAIN issues :
          /\ id \in DOMAIN issues'
          /\ issues'[id].updatedAt >= issues[id].updatedAt
          /\ (PatchStep /\ resp'.code = 200 /\ resp'.id = id) =>
                issues'[id].updatedAt = now
          /\ ( /\ TickStep
               /\ issues[id].status # "Resolved"
               /\ OlderThanAWeek(issues[id], now) ) =>
                issues'[id].updatedAt = now
      ]_vars

----------------------------------------------------------------------------
(* GET /issues: C13 and C14, under ListSpec *)

\* GET /issues without query parameters, on either query parser
NoFilters ==
    [plain : BOOLEAN, category : {Undefined}, status : {Undefined},
     priority : {Undefined}, from : {Absent}, to : {Absent}]

\* C13: GET /issues with no filter returns every stored issue, each once,
\* an issue created later before an issue created earlier.
C13_ListMostRecentFirst ==
    [][ \A q \in NoFilters :
          GetIssues(q) =>
              /\ Len(resp'.list) = Cardinality(DOMAIN issues)
              /\ \A id \in DOMAIN issues :
                    \E i \in 1..Len(resp'.list) : resp'.list[i] = issues[id]
              /\ \A i, j \in 1..Len(resp'.list) :
                    i < j => resp'.list[i].createdAt > resp'.list[j].createdAt
      ]_vars

\* the filters of q that were supplied all hold of issue
Satisfies(issue, q) ==
    /\ q.category # Undefined => issue.category = q.category
    /\ q.status # Undefined => issue.status = q.status
    /\ q.priority # Undefined => issue.priority = q.priority
    /\ q.from.tag = "string" => issue.createdAt >= DecimalValue(q.from.chars)
    /\ q.to.tag = "string" => issue.createdAt <= DecimalValue(q.to.chars)

\* C14: for every combination of filters and every supplied value, a bound
\* of 0 included, GET /issues returns exactly the stored issues that
\* satisfy all the supplied filters.
C14_FiltersConjunctiveExact ==
    [][ \A q \in Queries :
          GetIssues(q) =>
              { resp'.list[i] : i \in 1..Len(resp'.list) } =
                  { issues[id] : id \in { k \in DOMAIN issues : Satisfies(issues[k], q) } }
      ]_vars

----------------------------------------------------------------------------
(* Signup, login and tokens: C15 to C20, under AuthSpec *)

\* C15: for every stored user, login with an identifier the user signed up
\* with and the user's password returns a token that resolves to that
\* user's identifier, whatever other signups there have been.
C15_LoginResolvesToSignupUser ==
    [][ \A id \in DOMAIN users :
          \A identifier \in {users[id].email, users[id].aadhaar} \ {Undefined} :
              Login([identifier |-> identifier, password |-> users[id].password]) =>
                  /\ resp'.code = 200
                  /\ Slice4(resp'.token) = id
      ]_vars

\* some stored user registered the identifier and has the password
Registered(req) ==
    /\ req.identifier # Undefined
    /\ \E id \in DOMAIN users :
          /\ \/ users[id].email # Undefined /\ users[id].email = req.identifier
             \/ users[id].aadhaar # Undefined /\ users[id].aadhaar = req.identifier
          /\ users[id].password = req.password

\* C16: login returns a token only when some stored user registered the
\* supplied identifier as email or national-ID and has the supplied
\* password; every other request, one without identifier included, is
\* answered 401 without a token.
C16_LoginOnlyWithCredentials ==
    [][ \A req \in LoginRequests :
          (Login(req) /\ ~Registered(req)) =>
              resp'.code = 401 /\ resp'.token = NoId
      ]_vars

\* C17: a signup without email and national-ID, or without password, or
\* without role is answered 400 and stores nothing; every other signup
\* adds exactly one record to the User table and returns a token for it.
C17_SignupValidatesAndAddsOne ==
    [][ \A req \in SignupRequests :
          Signup(req, AuthMaxUsers) =>
              IF \/ req.email = Undefined /\ req.aadhaar = Undefined
                 \/ req.password = Undefined
                 \/ req.role = Undefined
              THEN resp'.code = 400 /\ users' = users
              ELSE /\ resp'.code = 200
                   /\ resp'.token = DevPrefix \o resp'.id
                   /\ Cardinality(DOMAIN users') = Cardinality(DOMAIN users) + 1
                   /\ \A id \in DOMAIN users : users'[id] = users[id]
      ]_vars

\* C18: no two stored users share an email, and no two share a national-ID
\* number.
C18_IdentifiersUnique ==
    \A a, b \in DOMAIN users :
        a # b =>
            /\ users[a].email # Undefined => users[a].email # users[b].email
            /\ users[a].aadhaar # Undefined => users[a].aadhaar # users[b].aadhaar

\* C19: the userId of every stored issue is the identifier of a stored user
\* (users are never removed, so of a user stored when the issue was created).
C19_IssueOwnerExists ==
    \A id \in DOMAIN issues : issues[id].userId \in DOMAIN users

\* a token that is missing or does not begin with 'dev-'
Malformed(token) ==
    \/ token = << >>
    \/ Len(token) < 4
    \/ << token[1], token[2], token[3], token[4] >> # << "d", "e", "v", "-" >>

\* C20: a create with a missing or malformed token is answered 401 and
\* leaves the store as it was, whatever its body; a create with a token
\* that a signup has returned, in any later state, is never answered 401,
\* and the issue it stores has the userId of that signup's user.
C20_TokenGate ==
    [][ \A req \in AuthCreateRequests :
          PostIssues(req, AuthMaxIssues) =>
              /\ Malformed(req.token) =>
                    resp'.code = 401 /\ issues' = issues
              /\ \A uid \in DOMAIN users :
                    req.token = DevPrefix \o uid =>
                        /\ resp'.code # 401
                        /\ resp'.code = 200 => issues'[resp'.id].userId = uid
      ]_vars

\* a create without a well-formed token has just been refused, in a state
\* where an issue is stored that was created with a signup's token at a
\* clock reading later than that signup
C20_Witness ==
    /\ resp.op = "create" /\ resp.code = 401
    /\ \E id \in DOMAIN issues :
          /\ issues[id].userId \in DOMAIN users
          /\ issues[id].createdAt > Value36(issues[id].userId)

----------------------------------------------------------------------------
(* Requests and specification for arbitrary PATCH bodies beside the        *)
(* escalation interval                                                     *)

BodyCreateRequests ==
    { CreateRequest(GoodToken, "pothole on 5th", p, BigPhoto, Undefined) :
        p \in {"High", Undefined} }

\* a status outside IssueStatus, on stored, unknown and inherited keys
BodyPatchRequests ==
    [id : DOMAIN issues \cup {UnknownId, ProtoKey},
     status : {Undefined, "Closed"},
     department : {Undefined},
     priority : {Undefined, "Low"}]

BodyNext ==
    \/ \E req \in BodyCreateRequests : PostIssues(req, BodyMaxIssues)
    \/ \E req \in BodyPatchRequests : PatchIssue(req)
    \/ EscalationTick
    \/ AdvanceMs
    \/ AdvanceWeek

BodySpec == Init /\ [][BodyNext]_vars

----------------------------------------------------------------------------
(* Requests and specification for every endpoint together *)

ReadSignupRequests ==
    [email : {"a@x.in"},
     aadhaar : {Undefined},
     password : {Undefined, "pw"},
     role : {"User"},
     language : {Undefined, "hi"}]

ReadLoginRequests == [identifier : {"a@x.in"}, password : {"pw", "wrong"}]

ReadQueries == NoFilters \cup { [q EXCEPT !.status = "Spam"] : q \in NoFilters }

ReadMedia == {NoMedia, BigPhoto}

ReadCreateRequests ==
    { CreateRequest(t, "pothole on 5th", "High", m, Undefined) :
        t \in {GoodToken, BadToken}, m \in ReadMedia }

ReadPatchRequests ==
    [id : DOMAIN issues \cup {UnknownId},
     status : {Undefined, "Resolved"},
     department : {Undefined},
     priority : {Undefined}]

ReadNext ==
    \/ Health
    \/ \E req \in ReadSignupRequests : Signup(req, ReadMaxUsers)
    \/ \E req \in ReadLoginRequests : Login(req)
    \/ \E m \in ReadMedia : PostVerify(m)
    \/ \E q \in ReadQueries : GetIssues(q)
    \/ \E req \in ReadCreateRequests : PostIssues(req, ReadMaxIssues)
    \/ \E req \in ReadPatchRequests : PatchIssue(req)
    \/ EscalationTick
    \/ AdvanceMs

ReadSpec == Init /\ [][ReadNext]_vars

----------------------------------------------------------------------------
(* The lifecycle with the interval that keeps firing and the clock that    *)
(* keeps running: setInterval runs the callback every 60 seconds for as    *)
(* long as the process lives, and time passes between two readings of the  *)
(* clock, also after the clock was set back.                               *)

FairSpec ==
    Spec /\ WF_vars(EscalationTick) /\ WF_vars(AdvanceMs) /\ WF_vars(AdvanceWeek)

----------------------------------------------------------------------------
(* Validation, identifiers and status values: C21, C22, C23 *)

\* C21: a create whose description is missing or empty, or whose priority
\* is missing, is answered 400 and stores nothing; so every stored issue
\* has a non-empty description and a priority.  (PatchSpec)
C21_CreateValidates ==
    [][ /\ \A req \in PatchCreateRequests :
              ( /\ PostIssues(req, PatchMaxIssues)
                /\ req.description \in {Undefined, ""} \/ req.priority = Undefined ) =>
                  resp'.code = 400 /\ issues' = issues
        /\ \A id \in DOMAIN issues' :
              /\ issues'[id].description \notin {Undefined, Null, ""}
              /\ issues'[id].priority \notin {Undefined, Null, ""}
      ]_vars

\* C22: every successful create stores its record under an identifier that
\* no stored issue has, also when two creates read the same clock value:
\* no stored issue is overwritten and the store grows by one.  (Spec)
C22_IdentifiersUnique ==
    [][ \A req \in CreateRequests :
          Created(req, MaxIssues) =>
              /\ resp'.id \notin DOMAIN issues
              /\ Cardinality(DOMAIN issues') = Cardinality(DOMAIN issues) + 1
              /\ \A id \in DOMAIN issues : issues'[id] = issues[id]
      ]_vars

IssueStatus == {"Reported", "Verified", "Assigned", "Resolved", "Spam"}

\* C23: the status of every stored issue is one of Reported, Verified,
\* Assigned, Resolved, Spam, whatever bodies PATCH was sent.  (BodySpec)
C23_StatusInEnumeration ==
    \A id \in DOMAIN issues : issues[id].status \in IssueStatus

----------------------------------------------------------------------------
(* Responses and side effects: C25 and C28, under ReadSpec *)

\* C25: the body of no answer holds the password of a stored user: the
\* user of the answer has no password field, none of its fields has the
\* value of a stored password, and no listed record has a password field.
C25_PasswordNeverReturned ==
    /\ "password" \notin DOMAIN resp.user
    /\ \A id \in DOMAIN users :
          \A f \in {"role", "email", "aadhaar", "language"} :
              resp.user[f] # users[id].password
    /\ \A i \in 1..Len(resp.list) : "password" \notin DOMAIN resp.list[i]

\* a login has just answered with the user whose password is stored
C25_Witness ==
    /\ resp.op = "login" /\ resp.code = 200
    /\ resp.id \in DOMAIN users
    /\ users[resp.id].password = "pw"
    /\ resp.user.email = "a@x.in"

ReadOnlyOps == {"login", "list", "verify", "health"}

\* C28: a step of login, GET /issues, POST /verify or GET /health leaves
\* the User table and the Issue Store as they were, whatever it answers;
\* and only a successful signup changes the User table.
C28_ReadOnlyOperations ==
    [][ /\ resp'.op \in ReadOnlyOps => users' = users /\ issues' = issues
        /\ users' # users => resp'.op = "signup" /\ resp'.code = 200
      ]_vars

\* GET /issues has just listed a stored issue that carries its media, with
\* a user in the User table
C28_Witness ==
    /\ resp.op = "list" /\ resp.list # << >>
    /\ resp.list = ObjectValues(issues, keyOrder.issues)
    /\ \E id \in DOMAIN issues : issues[id].media = BigPhoto
    /\ users # << >>

----------------------------------------------------------------------------
(* The interval under fairness: C26, under FairSpec *)

\* the issue id is stored, not Resolved and older than 7 days
StaleOpen(id) ==
    /\ id \in DOMAIN issues
    /\ issues[id].status # "Resolved"
    /\ OlderThanAWeek(issues[id], now)

----------------------------------------------------------------------------
(* The scan and the update contract: C27, under BodySpec *)

\* the record that PATCH /issues/:id produces from issue when its body
\* carries status 'Assigned' and, only for an issue without department,
\* department 'Commissioner'
UpdateStatusToAssigned(issue) ==
    ApplyPatch(issue,
               BodyField("Assigned", "status"),
               BodyField(IF Falsy(issue.department) THEN "Commissioner" ELSE Undefined,
                         "department"),
               BodyField(Undefined, "priority"))

\* C27: a tick leaves every stale non-Resolved issue equal, in every
\* field, to the record that updateStatus with status Assigned (and
\* department 'Commissioner' only when the issue has none) produces from
\* it at the same clock reading.
C27_EscalationIsUpdateStatus ==
    [][ TickStep =>
          \A id \in DOMAIN issues :
              StaleOpen(id) => issues'[id] = UpdateStatusToAssigned(issues[id])
      ]_vars

----------------------------------------------------------------------------
(* The gate standalone and at creation: C29, under GateSpec *)

\* C29: whenever POST /verify answers for a media m, its verdict is
\* genuine exactly when the issues created with the same m, in whatever
\* state they were created, were stored as Reported.
C29_GateSameStandalone ==
    [][ resp'.op = "verify" =>
          \A id \in DOMAIN issues :
              \A m \in GateMedia :
                  (issues[id].media = MediaOrNull(m) /\ PostVerify(m)) =>
                      (resp'.isGenuine <=> issues[id].status = "Reported")
      ]_vars

\* POST /verify has just rejected a photo as too small, and an issue
\* created with a photo is stored as Spam beside one stored as Reported
C29_Witness ==
    /\ resp.op = "verify" /\ ~resp.isGenuine /\ resp.reason = "Image too small"
    /\ \E a, b \in DOMAIN issues :
          /\ issues[a].media = MediaOf("photo", MinPhotoBytes - 1)
          /\ issues[a].status = "Spam"
          /\ issues[b].status = "Reported"

----------------------------------------------------------------------------
(* What never changes of a stored issue: C30, under Spec *)

ImmutableFields ==
    {"id", "userId", "category", "description", "emergency", "location",
     "media", "voice", "createdAt"}

\* C30: no step removes a stored issue or changes its id, userId,
\* category, description, emergency flag, location, media, voice or
\* createdAt, and a PATCH changes no field of an issue other than the one
\* it names.
C30_StoredIssueFrame ==
    [][ \A id \in DOMAIN issues :
          /\ id \in DOMAIN issues'
          /\ \A f \in ImmutableFields : issues'[id][f] = issues[id][f]
          /\ (PatchStep /\ resp'.id # id) => issues'[id] = issues[id]
      ]_vars

====
